---- MODULE Spec2Model ----
(***************************************************************************)
(* HyperDex region-local storage directory (hyperdaemon::datalayer) and    *)
(* its background flush thread, as a state machine.                        *)
(*                                                                         *)
(* Threads of the model:                                                   *)
(*   - the configuration thread, which calls prepare and cleanup;          *)
(*   - the flush thread (m_flusher), which runs flush_loop;                *)
(*   - one foreground thread, which calls get/put/del/trickle/snapshots;   *)
(*   - the owner, which calls shutdown and destroys the datalayer.         *)
(*                                                                         *)
(* A rdhold scope of the source contains only a copy of, or a lookup in,   *)
(* m_disks; each is one atomic step that needs the lock not to be held     *)
(* exclusively.  A wrhold scope that calls into a Disk (drop_disk) spans   *)
(* two steps, with m_lock held between them.                               *)
(***************************************************************************)
EXTENDS Integers, Sequences, FiniteSets, TLC

(***************************************************************************)
(* Bounds of the model.                                                    *)
(***************************************************************************)
\* regions of the user space; one more region lies in the sentinel space
NumRegions == 1
\* replica indexes (entityid.number) a configuration uses: 0..NumReplicas-1
NumReplicas == 2
\* transfer ids a configuration uses: 1..MaxTransfers
MaxTransfers == 1
\* Disk objects constructed in one behaviour
MaxDisks == 2
\* the largest value of regionid.space in the model; it stands for
\* std::numeric_limits<uint32_t>::max(), which TLC's integers cannot hold
MaxSpace == 7

(***************************************************************************)
(* Program constants.                                                      *)
(***************************************************************************)
\* std::numeric_limits<uint32_t>::max() - 1, the bookkeeping space
SentinelSpace == MaxSpace - 1
UINT8_MAX == 255

(***************************************************************************)
(* Identifiers and configurations.                                         *)
(***************************************************************************)
regionid(space, subspace) == [space |-> space, subspace |-> subspace]

entityid(ri, number) ==
    [space |-> ri.space, subspace |-> ri.subspace, number |-> number]

get_region(e) == regionid(e.space, e.subspace)

Regions ==
    {regionid(0, s) : s \in 0..(NumRegions - 1)} \cup {regionid(SentinelSpace, 0)}

Entities == {entityid(ri, n) : ri \in Regions, n \in 0..(NumReplicas - 1)}

Us == "us"

Instances == {Us, "other"}

\* operator< of regionid and of entityid: the order of the std::map keys
RegionLess(a, b) ==
    \/ a.space < b.space
    \/ a.space = b.space /\ a.subspace < b.subspace

EntityLess(a, b) ==
    \/ RegionLess(get_region(a), get_region(b))
    \/ get_region(a) = get_region(b) /\ a.number < b.number

\* the keys of a std::map in iteration order
RECURSIVE SortedRegions(_)
SortedRegions(S) ==
    IF S = {} THEN <<>>
    ELSE LET m == CHOOSE x \in S : \A y \in S : x = y \/ RegionLess(x, y)
         IN  <<m>> \o SortedRegions(S \ {m})

RECURSIVE SortedEntities(_)
SortedEntities(S) ==
    IF S = {} THEN <<>>
    ELSE LET m == CHOOSE x \in S : \A y \in S : x = y \/ EntityLess(x, y)
         IN  <<m>> \o SortedEntities(S \ {m})

PartialFunctions(D, R) == UNION {[X -> R] : X \in SUBSET D}

\* hyperdex::configuration as the datalayer reads it:
\*   regions           regions() (the column-count table; its keys)
\*   entity_mapping    entity_mapping()
\*   transfers         transfers_to(us)
Configs ==
    [regions : SUBSET Regions,
     entity_mapping : PartialFunctions(Entities, Instances),
     transfers : PartialFunctions(1..MaxTransfers, Regions)]

\* configurations in which every region is in the column-count table
ConsistentConfigs == {c \in Configs : c.regions = Regions}

(***************************************************************************)
(* std::map<regionid, disk_ptr> as a set of (first, second) pairs.         *)
(***************************************************************************)
Keys(m) == {p[1] : p \in m}

MapFind(m, ri) == IF ri \in Keys(m) THEN (CHOOSE p \in m : p[1] = ri)[2] ELSE 0

\* a variant of MapInsert that overwrites the mapped value (operator[] = )
MapAssign(m, ri, d) == {p \in m : p[1] # ri} \cup {<<ri, d>>}

\* std::map::insert: no effect when the key is already present
MapInsert(m, ri, d) == IF ri \in Keys(m) THEN m ELSE m \cup {<<ri, d>>}

MapErase(m, ri) == {p \in m : p[1] # ri}

(***************************************************************************)
(* prepare: the create_disk calls of one invocation, in order.  The loop   *)
(* conditions read only the parameters and the local copy `disks`, so the  *)
(* calls are determined when the copy is taken.                            *)
(***************************************************************************)
\* a variant of PrepareEntityCreates that skips the e->second == us test
PrepareEntityCreatesAnyInstance(cfg, us, disks) ==
    LET es == SortedEntities(DOMAIN cfg.entity_mapping)
        want(e) == /\ e.space # SentinelSpace
                   /\ get_region(e) \notin Keys(disks)
                   /\ get_region(e) \in cfg.regions
        sel == SelectSeq(es, want)
    IN  [i \in 1..Len(sel) |-> get_region(sel[i])]

PrepareEntityCreates(cfg, us, disks) ==
    LET es == SortedEntities(DOMAIN cfg.entity_mapping)
        want(e) == /\ e.space # SentinelSpace
                   /\ cfg.entity_mapping[e] = us
                   /\ get_region(e) \notin Keys(disks)
                   /\ get_region(e) \in cfg.regions
        sel == SelectSeq(es, want)
    IN  [i \in 1..Len(sel) |-> get_region(sel[i])]

PrepareTransferCreates(cfg, us, disks) ==
    LET ts == cfg.transfers
        ids == SelectSeq([i \in 1..MaxTransfers |-> i], LAMBDA i : i \in DOMAIN ts)
        want(t) == ts[t] \notin Keys(disks) /\ ts[t] \in cfg.regions
        sel == SelectSeq(ids, want)
    IN  [i \in 1..Len(sel) |-> ts[sel[i]]]

\* a variant of PrepareCreates without the disks.find(...) == disks.end() tests
PrepareCreatesNoFind(cfg, us, disks) ==
    PrepareEntityCreates(cfg, us, {}) \o PrepareTransferCreates(cfg, us, {})

PrepareCreates(cfg, us, disks) ==
    PrepareEntityCreates(cfg, us, disks) \o PrepareTransferCreates(cfg, us, disks)

(***************************************************************************)
(* cleanup: the drop_disk calls of one invocation, in order.               *)
(***************************************************************************)
\* a variant of CleanupKeep that looks at replica 0 of the region only
CleanupKeepReplicaZero(cfg, us, ri) ==
    \/ \E e \in DOMAIN cfg.entity_mapping :
          /\ e = entityid(ri, 0)
          /\ cfg.entity_mapping[e] = us
    \/ \E t \in DOMAIN cfg.transfers : cfg.transfers[t] = ri

\* lines 174-195: keep, for the entry of region ri
CleanupKeep(cfg, us, ri) ==
    \/ \E e \in DOMAIN cfg.entity_mapping :
          /\ ~EntityLess(e, entityid(ri, 0))
          /\ ~EntityLess(entityid(ri, UINT8_MAX), e)
          /\ cfg.entity_mapping[e] = us
    \/ \E t \in DOMAIN cfg.transfers : cfg.transfers[t] = ri

\* a variant of CleanupDrops that ignores the transfer targets
CleanupDropsNoTransfers(cfg, us, disks) ==
    SelectSeq(SortedRegions(Keys(disks)),
              LAMBDA ri : ~(\E e \in DOMAIN cfg.entity_mapping :
                               get_region(e) = ri /\ cfg.entity_mapping[e] = us))

CleanupDrops(cfg, us, disks) ==
    SelectSeq(SortedRegions(Keys(disks)), LAMBDA ri : ~CleanupKeep(cfg, us, ri))

(***************************************************************************)
(* hyperdex::append_only_log::segment_list.  A list object holds m_ref,    *)
(* m_sz and m_segments, an array of m_sz pairs <<lower bound, segment>>.   *)
(* The objects live in a heap, a sequence indexed by their address; a      *)
(* handle (e::intrusive_ptr<segment_list>) is an index into it.            *)
(***************************************************************************)
MaxLists == 4
MaxBound == 3

\* segment_list(): an empty list, held by refs handles
segment_list(refs) == [m_ref |-> refs, m_sz |-> 0, m_segments |-> <<>>]

\* a variant of add that extends the array of the list it is called on and
\* returns a list sharing it
addInPlace(lists, l, lower_bound, ws) ==
    LET grown == [lists[l] EXCEPT !.m_sz = @ + 1,
                                  !.m_segments = Append(@, <<lower_bound, ws>>)]
    IN  Append([lists EXCEPT ![l] = grown], [grown EXCEPT !.m_ref = 0])

\* add: a new list with the entries of list l followed by the new entry;
\* the new list is the last object of the heap returned
add(lists, l, lower_bound, ws) ==
    Append(lists, [m_ref |-> 0,
                   m_sz |-> lists[l].m_sz + 1,
                   m_segments |-> Append(lists[l].m_segments, <<lower_bound, ws>>)])

get_lower_bound(lists, l, i) == lists[l].m_segments[i][1]

get_segment(lists, l, i) == lists[l].m_segments[i][2]

\* every accessor result of list l
Accessors(lists, l) ==
    [i \in 1..lists[l].m_sz |-> <<get_lower_bound(lists, l, i), get_segment(lists, l, i)>>]

\* e::intrusive_ptr takes a reference
inc(lists, l) == [lists EXCEPT ![l].m_ref = @ + 1]

\* e::intrusive_ptr gives a reference up; the last one deletes the list
dec(lists, l) ==
    IF lists[l].m_ref = 1
    THEN [lists EXCEPT ![l] = [m_ref |-> 0, m_sz |-> 0, m_segments |-> <<>>]]
    ELSE [lists EXCEPT ![l].m_ref = @ - 1]

(***************************************************************************)
(* Return codes of hyperdisk::disk calls.  FAILURE stands for every code   *)
(* that flush_loop handles in its final else branches.                     *)
(***************************************************************************)
ReturnCodes == {"SUCCESS", "DIDNOTHING", "DATAFULL", "SEARCHFULL", "MISSINGDISK", "FAILURE"}

(***************************************************************************)
(* State.                                                                  *)
(***************************************************************************)
VARIABLES
    m_disks,            \* datalayer::m_disks
    m_lock,             \* datalayer::m_lock: "free" or "exclusive"
    m_shutdown,         \* datalayer::m_shutdown
    m_preallocate_rr,   \* datalayer::m_preallocate_rr
    m_optimistic_rr,    \* datalayer::m_optimistic_rr
    m_last_preallocation,    \* 0 (constructor) or 1 (a value of e::time())
    m_last_dose_of_optimism, \* 0 (constructor) or 1 (a value of e::time())
    disk,               \* the hyperdisk::disk objects constructed so far
    c_pc,               \* configuration thread: position
    c_op,               \* configuration thread: the call in progress
    c_todo,             \* configuration thread: regions still to create or drop
    c_d,                \* configuration thread: create_disk's local d
    c_made,             \* Disks constructed by the invocation in progress
    h,                  \* history of the last prepare/cleanup invocation
    f_pc,               \* flush thread: position in flush_loop
    f_disks,            \* flush_loop's local disks
    f_sleep,            \* flush_loop's local sleep
    f_i,                \* flush_loop's loop counters and iterator i
    f_ri,               \* region of the Disk call in progress
    f_calls,            \* Disk calls of the current pass, <<op, region>>
    f_full,             \* regions whose flush returned DATAFULL/SEARCHFULL
    f_failed,           \* regions whose do_mandatory_io failed (line 431)
    f_ret,              \* what preallocate or do_optimistic_io returned, if the last step of flush_loop was its return
    f_worked,           \* a preallocate, do_optimistic_io or flush of this iteration returned SUCCESS
    f_stable,           \* m_disks has not changed since flush_loop copied it
    f_missed,           \* per region: preallocation passes without an attempt
    o_pc,               \* owner: "alive", "join", "joined" or "destroyed"
    g_pc,               \* foreground thread: "idle", "found" or "call"
    g_r,                \* foreground thread: the local r (0 when null)
    g_op,               \* foreground thread: the Disk method it is in
    g_res,              \* history of the last foreground call
    s_lists,            \* the segment_list objects constructed so far
    s_writer,           \* the writer's handle: the current list of the log
    s_reader,           \* a reader's handle (0 when it holds none)
    s_seen,             \* what the accessors returned when the reader took its handle
    s_got,              \* the last accessor results of the reader: <<i, lower bound, segment>>
    s_arg               \* the list and the arguments of the last add

dvars == <<m_disks, m_lock, disk>>
cvars == <<c_pc, c_op, c_todo, c_d, c_made>>
qvars == <<m_preallocate_rr, m_optimistic_rr, m_last_preallocation, m_last_dose_of_optimism>>
fvars == <<f_pc, f_disks, f_sleep, f_i, f_ri, f_calls, f_full, f_failed, f_ret, f_worked>>
wvars == <<f_stable, f_missed>>
ovars == <<m_shutdown, o_pc>>
gvars == <<g_pc, g_r, g_op, g_res>>
\* what the configuration thread never writes
notconfig == <<qvars, fvars, ovars, gvars>>
svars == <<s_lists, s_writer, s_reader, s_seen, s_got, s_arg>>
datalayer == <<dvars, cvars, qvars, fvars, wvars, ovars, gvars, h>>
vars == <<datalayer, svars>>

NoHistory == [op |-> "none"]

NoResult == [fn |-> "none"]

\* the regions with an entry in m_disks
Hosted == Keys(m_disks)

NoneMissed == [ri \in Regions |-> 0]

\* bookkeeping of the preallocation passes when m_disks becomes m
MapWrite(m) ==
    /\ m_disks' = m
    /\ IF m = m_disks
       THEN UNCHANGED wvars
       ELSE f_stable' = FALSE /\ f_missed' = NoneMissed

(***************************************************************************)
(* Configuration thread: prepare and create_disk.                          *)
(***************************************************************************)
\* lines 100-109 and the loop conditions of lines 111-150: copy m_disks
\* under rdhold, then walk entity_mapping() and transfers_to(us)
prepare(cfg, us, hist) ==
    /\ o_pc = "alive"
    /\ c_pc = "idle"
    /\ m_lock = "free"
    /\ LET todo == PrepareCreates(cfg, us, m_disks)
       IN  /\ Len(disk) + Len(todo) <= MaxDisks
           /\ c_todo' = todo
           /\ c_pc' = IF todo = <<>> THEN "idle" ELSE "create"
    /\ c_op' = "prepare"
    /\ c_made' = 0
    /\ h' = hist
    /\ UNCHANGED <<svars, dvars, c_d, notconfig, wvars>>

\* create_disk, lines 456-460: hyperdisk::disk::create, outside the lock
create_disk_create ==
    /\ c_pc = "create"
    /\ disk' = Append(disk, [ri |-> Head(c_todo), drops |-> 0])
    /\ c_d' = Len(disk) + 1
    /\ c_made' = c_made + 1
    /\ c_pc' = "insert"
    /\ UNCHANGED <<svars, m_disks, m_lock, c_op, c_todo, notconfig, wvars, h>>

\* create_disk, lines 461-462: insert under wrhold, then back to prepare's loop
create_disk_insert ==
    /\ c_pc = "insert"
    /\ m_lock = "free"
    /\ MapWrite(MapInsert(m_disks, Head(c_todo), c_d))
    /\ c_todo' = Tail(c_todo)
    /\ c_pc' = IF Tail(c_todo) = <<>> THEN "idle" ELSE "create"
    /\ c_d' = 0
    /\ UNCHANGED <<svars, m_lock, disk, c_op, c_made, notconfig, h>>

(***************************************************************************)
(* Configuration thread: cleanup and drop_disk.                            *)
(***************************************************************************)
\* lines 163-197: copy m_disks under rdhold, decide `keep` for each entry
cleanup(cfg, us, hist) ==
    /\ o_pc = "alive"
    /\ c_pc = "idle"
    /\ m_lock = "free"
    /\ LET todo == CleanupDrops(cfg, us, m_disks)
       IN  /\ c_todo' = todo
           /\ c_pc' = IF todo = <<>> THEN "idle" ELSE "drop"
    /\ c_op' = "cleanup"
    /\ c_made' = 0
    /\ h' = hist
    /\ UNCHANGED <<svars, dvars, c_d, notconfig, wvars>>

\* drop_disk, lines 468-475: take wrhold, find the entry, call drop() on it
drop_disk_drop ==
    /\ c_pc = "drop"
    /\ m_lock = "free"
    /\ LET ri == Head(c_todo)
           d == MapFind(m_disks, ri)
       IN  IF d # 0
           THEN /\ m_lock' = "exclusive"
                /\ disk' = [disk EXCEPT ![d].drops = @ + 1]
                /\ c_d' = d
                /\ c_pc' = "erase"
                /\ UNCHANGED c_todo
           ELSE /\ c_todo' = Tail(c_todo)
                /\ c_pc' = IF Tail(c_todo) = <<>> THEN "idle" ELSE "drop"
                /\ UNCHANGED <<m_lock, disk, c_d>>
    /\ UNCHANGED <<svars, m_disks, c_op, c_made, notconfig, wvars, h>>

\* drop_disk, lines 476-477: drop() returned; erase the entry, release wrhold
drop_disk_erase ==
    /\ c_pc = "erase"
    /\ MapWrite(MapErase(m_disks, Head(c_todo)))
    /\ m_lock' = "free"
    /\ c_todo' = Tail(c_todo)
    /\ c_pc' = IF Tail(c_todo) = <<>> THEN "idle" ELSE "drop"
    /\ c_d' = 0
    /\ UNCHANGED <<svars, disk, c_op, c_made, notconfig, h>>

ConfigStep == create_disk_create \/ create_disk_insert \/ drop_disk_drop \/ drop_disk_erase

(***************************************************************************)
(* Flush thread: flush_loop.                                               *)
(***************************************************************************)
\* the value of the loop's iterator while no Disk call is in flight
NoRegion == regionid(-1, -1)

\* a variant of Populate without the std::find tests
PopulateNoFind(q, disks) == q \o SortedRegions(Keys(disks))

\* lines 328-341: push_back every region of disks that a queue lacks
Populate(q, disks) ==
    q \o SelectSeq(SortedRegions(Keys(disks)),
                   LAMBDA ri : \A k \in 1..Len(q) : q[k] # ri)

\* a variant of Rotate that keeps a region absent from disks in the queue
RotateKeepStale(q, disks) == Append(Tail(q), Head(q))

\* lines 348-355: move the front to the back if disks has it, else pop it
Rotate(q, disks) ==
    IF Head(q) \in Keys(disks) THEN Append(Tail(q), Head(q)) ELSE Tail(q)

\* the regions on which the current iteration has called op
Called(op) == {f_calls[k][2] : k \in {j \in 1..Len(f_calls) : f_calls[j][1] = op}}

MissedCap == NumRegions + 1

\* end of a preallocation pass: count it for the regions it did not attempt,
\* if m_disks is still what the pass worked on
CountPass ==
    f_missed' =
        IF f_stable
        THEN [ri \in Regions |->
                IF ri \in Keys(f_disks) /\ ri \notin Called("preallocate")
                THEN IF f_missed[ri] < MissedCap THEN f_missed[ri] + 1 ELSE MissedCap
                ELSE 0]
        ELSE f_missed

\* a variant of SleepAfter that takes DIDNOTHING for work
SleepAfterAnyReturn(sleep, ret) ==
    IF ret \in {"SUCCESS", "DIDNOTHING"} THEN FALSE ELSE sleep

\* lines 363-366, 399-402, 419-422: sleep = false when the call returned SUCCESS
SleepAfter(sleep, ret) == IF ret = "SUCCESS" THEN FALSE ELSE sleep

\* a variant of StopRequested that never sees the flag
StopIgnored == FALSE

\* line 318: the loop condition
StopRequested == m_shutdown

\* line 318-320: top of an iteration
flush_loop_top ==
    /\ f_pc = "top"
    /\ IF StopRequested
       THEN f_pc' = "done" /\ UNCHANGED f_sleep
       ELSE f_pc' = "copy" /\ f_sleep' = TRUE
    /\ f_ret' = "none"
    /\ f_worked' = FALSE
    /\ UNCHANGED <<svars, dvars, cvars, qvars, f_disks, f_i, f_ri, f_calls, f_full, f_failed, wvars, ovars, gvars, h>>

\* lines 321-341: copy m_disks under rdhold, then extend the two queues
flush_loop_copy ==
    /\ f_pc = "copy"
    /\ m_lock = "free"
    /\ f_disks' = m_disks
    /\ m_preallocate_rr' = Populate(m_preallocate_rr, m_disks)
    /\ m_optimistic_rr' = Populate(m_optimistic_rr, m_disks)
    /\ f_stable' = TRUE
    /\ f_pc' = "preallocate"
    /\ f_ret' = "none"
    /\ UNCHANGED f_worked
    /\ UNCHANGED <<svars, dvars, cvars, m_last_preallocation, m_last_dose_of_optimism,
                   f_sleep, f_i, f_ri, f_calls, f_full, f_failed, f_missed, ovars, gvars, h>>

\* line 344: (e::time() - m_last_preallocation) / 500000000. > 1
preallocate_check ==
    /\ f_pc = "preallocate"
    /\ \E elapsed \in BOOLEAN :
          IF m_last_preallocation = 0 \/ elapsed
          THEN f_pc' = "preallocate_loop"
          ELSE f_pc' = "optimistic"
    /\ f_i' = 0
    /\ f_calls' = <<>>
    /\ f_ret' = "none"
    /\ UNCHANGED f_worked
    /\ UNCHANGED <<svars, dvars, cvars, qvars, f_disks, f_sleep, f_ri, f_full, f_failed, wvars, ovars, gvars, h>>

\* lines 346-359 and 376: one turn of the loop, up to the call of preallocate
preallocate_loop ==
    /\ f_pc = "preallocate_loop"
    /\ IF f_i < Len(m_preallocate_rr)
       THEN /\ m_preallocate_rr' = Rotate(m_preallocate_rr, f_disks)
            /\ IF Head(m_preallocate_rr) \in Keys(f_disks)
               THEN /\ f_ri' = Head(m_preallocate_rr)
                    /\ f_calls' = Append(f_calls, <<"preallocate", Head(m_preallocate_rr)>>)
                    /\ f_pc' = "preallocate_call"
                    /\ UNCHANGED f_i
               ELSE /\ f_i' = f_i + 1
                    /\ UNCHANGED <<f_pc, f_ri, f_calls>>
            /\ UNCHANGED <<m_last_preallocation, f_missed>>
       ELSE /\ m_last_preallocation' = 1
            /\ CountPass
            /\ f_pc' = "optimistic"
            /\ f_i' = 0
            /\ UNCHANGED <<m_preallocate_rr, f_ri, f_calls>>
    /\ f_ret' = "none"
    /\ UNCHANGED f_worked
    /\ UNCHANGED <<svars, dvars, cvars, m_optimistic_rr, m_last_dose_of_optimism,
                   f_disks, f_sleep, f_full, f_failed, f_stable, ovars, gvars, h>>

\* lines 359-376: preallocate() returns ret
preallocate_return(ret) ==
    /\ f_pc = "preallocate_call"
    /\ IF ret = "SUCCESS"
       THEN /\ m_last_preallocation' = 1
            /\ CountPass
            /\ f_pc' = "optimistic"
            /\ f_i' = 0
       ELSE /\ f_i' = f_i + 1
            /\ f_pc' = "preallocate_loop"
            /\ UNCHANGED <<m_last_preallocation, f_missed>>
    /\ f_sleep' = SleepAfter(f_sleep, ret)
    /\ f_ri' = NoRegion
    /\ f_ret' = ret
    /\ f_worked' = (f_worked \/ ret = "SUCCESS")
    /\ UNCHANGED <<svars, dvars, cvars, m_preallocate_rr, m_optimistic_rr, m_last_dose_of_optimism,
                   f_disks, f_calls, f_full, f_failed, f_stable, ovars, gvars, h>>

\* line 380: (e::time() - m_last_dose_of_optimism) / 500000000. > 1
optimistic_check ==
    /\ f_pc = "optimistic"
    /\ \E elapsed \in BOOLEAN :
          IF m_last_dose_of_optimism = 0 \/ elapsed
          THEN f_pc' = "optimistic_loop" /\ f_i' = 0
          ELSE f_pc' = "flush" /\ f_i' = 1
    /\ f_calls' = <<>>
    /\ f_ret' = "none"
    /\ UNCHANGED f_worked
    /\ UNCHANGED <<svars, dvars, cvars, qvars, f_disks, f_sleep, f_ri, f_full, f_failed, wvars, ovars, gvars, h>>

\* lines 382-395 and 412: one turn of the loop, up to the call of do_optimistic_io
optimistic_loop ==
    /\ f_pc = "optimistic_loop"
    /\ IF f_i < Len(m_optimistic_rr)
       THEN /\ m_optimistic_rr' = Rotate(m_optimistic_rr, f_disks)
            /\ IF Head(m_optimistic_rr) \in Keys(f_disks)
               THEN /\ f_ri' = Head(m_optimistic_rr)
                    /\ f_calls' = Append(f_calls, <<"do_optimistic_io", Head(m_optimistic_rr)>>)
                    /\ f_pc' = "optimistic_call"
                    /\ UNCHANGED f_i
               ELSE /\ f_i' = f_i + 1
                    /\ UNCHANGED <<f_pc, f_ri, f_calls>>
            /\ UNCHANGED m_last_dose_of_optimism
       ELSE /\ m_last_dose_of_optimism' = 1
            /\ f_pc' = "flush"
            /\ f_i' = 1
            /\ UNCHANGED <<m_optimistic_rr, f_ri, f_calls>>
    /\ f_ret' = "none"
    /\ UNCHANGED f_worked
    /\ UNCHANGED <<svars, dvars, cvars, m_preallocate_rr, m_last_preallocation,
                   f_disks, f_sleep, f_full, f_failed, wvars, ovars, gvars, h>>

\* lines 395-412: do_optimistic_io() returns ret
optimistic_return(ret) ==
    /\ f_pc = "optimistic_call"
    /\ IF ret = "SUCCESS"
       THEN /\ m_last_dose_of_optimism' = 1
            /\ f_pc' = "flush"
            /\ f_i' = 1
       ELSE /\ f_i' = f_i + 1
            /\ f_pc' = "optimistic_loop"
            /\ UNCHANGED m_last_dose_of_optimism
    /\ f_sleep' = SleepAfter(f_sleep, ret)
    /\ f_ri' = NoRegion
    /\ f_ret' = ret
    /\ f_worked' = (f_worked \/ ret = "SUCCESS")
    /\ UNCHANGED <<svars, dvars, cvars, m_preallocate_rr, m_optimistic_rr, m_last_preallocation,
                   f_disks, f_calls, f_full, f_failed, wvars, ovars, gvars, h>>

\* lines 415-417: the next Disk of the copy, up to the call of flush
flush_call ==
    /\ f_pc = "flush"
    /\ LET rs == SortedRegions(Keys(f_disks))
       IN  IF f_i <= Len(rs)
           THEN /\ f_ri' = rs[f_i]
                /\ f_calls' = Append(IF f_i = 1 THEN <<>> ELSE f_calls, <<"flush", rs[f_i]>>)
                /\ f_pc' = "flush_call"
           ELSE /\ f_pc' = "end"
                /\ UNCHANGED <<f_ri, f_calls>>
    /\ f_ret' = "none"
    /\ UNCHANGED f_worked
    /\ UNCHANGED <<svars, dvars, cvars, qvars, f_disks, f_sleep, f_i, f_full, f_failed, wvars, ovars, gvars, h>>

\* a variant of NextDisk that leaves the loop when a Disk call failed
NextDiskBreakOnFailure(i, n, ret) ==
    IF ret \in {"SUCCESS", "DIDNOTHING"} THEN i + 1 ELSE n + 1

\* line 415, ++i: the flush pass goes on to the next of the n Disks of the
\* copy whatever the last Disk call returned
NextDisk(i, n, ret) == i + 1

\* a variant of NeedsMandatoryIO that reacts to DATAFULL only
NeedsMandatoryIODataOnly(ret) == ret = "DATAFULL"

\* line 426
NeedsMandatoryIO(ret) == ret = "DATAFULL" \/ ret = "SEARCHFULL"

\* lines 417-429, 436-439: flush() returns ret
flush_return(ret) ==
    /\ f_pc = "flush_call"
    /\ f_sleep' = SleepAfter(f_sleep, ret)
    /\ IF ret # "SUCCESS" /\ ret # "DIDNOTHING" /\ NeedsMandatoryIO(ret)
       THEN /\ f_calls' = Append(f_calls, <<"do_mandatory_io", f_ri>>)
            /\ f_pc' = "mandatory_call"
            /\ UNCHANGED <<f_i, f_ri>>
       ELSE /\ f_i' = NextDisk(f_i, Cardinality(f_disks), ret)
            /\ f_ri' = NoRegion
            /\ f_pc' = "flush"
            /\ UNCHANGED f_calls
    /\ f_full' = IF ret \in {"DATAFULL", "SEARCHFULL"} THEN f_full \cup {f_ri} ELSE f_full
    /\ f_ret' = "none"
    /\ f_worked' = (f_worked \/ ret = "SUCCESS")
    /\ UNCHANGED <<svars, dvars, cvars, qvars, f_disks, f_failed, wvars, ovars, gvars, h>>

\* lines 429-435: do_mandatory_io() returns ioret
mandatory_return(ioret) ==
    /\ f_pc = "mandatory_call"
    /\ f_i' = NextDisk(f_i, Cardinality(f_disks), ioret)
    /\ f_ri' = NoRegion
    /\ f_pc' = "flush"
    /\ f_failed' = IF ioret # "SUCCESS" /\ ioret # "DIDNOTHING"
                   THEN f_failed \cup {f_ri} ELSE f_failed
    /\ f_ret' = "none"
    /\ UNCHANGED f_worked
    /\ UNCHANGED <<svars, dvars, cvars, qvars, f_disks, f_sleep, f_calls, f_full, wvars, ovars, gvars, h>>

\* lines 442-448: end of the iteration; its locals go out of scope
flush_loop_end ==
    /\ f_pc = "end"
    /\ f_pc' = IF f_sleep THEN "sleep" ELSE "top"
    /\ f_disks' = {}
    /\ f_calls' = <<>>
    /\ f_full' = {}
    /\ f_failed' = {}
    /\ f_i' = 0
    /\ f_ret' = "none"
    /\ UNCHANGED f_worked
    /\ UNCHANGED <<svars, dvars, cvars, qvars, f_sleep, f_ri, wvars, ovars, gvars, h>>

\* line 444: e::sleep_ms returns
sleep_return ==
    /\ f_pc = "sleep"
    /\ f_pc' = "top"
    /\ f_ret' = "none"
    /\ UNCHANGED f_worked
    /\ UNCHANGED <<svars, dvars, cvars, qvars, f_disks, f_sleep, f_i, f_ri, f_calls, f_full, f_failed,
                   wvars, ovars, gvars, h>>

Flusher ==
    \/ flush_loop_top
    \/ flush_loop_copy
    \/ preallocate_check
    \/ preallocate_loop
    \/ \E ret \in ReturnCodes : preallocate_return(ret)
    \/ optimistic_check
    \/ optimistic_loop
    \/ \E ret \in ReturnCodes : optimistic_return(ret)
    \/ flush_call
    \/ \E ret \in ReturnCodes : flush_return(ret)
    \/ \E ioret \in ReturnCodes : mandatory_return(ioret)
    \/ flush_loop_end
    \/ sleep_return

(***************************************************************************)
(* Foreground thread: get, put, del, trickle, make_snapshot and            *)
(* make_rolling_snapshot.  Each calls get_region and then, if r is not     *)
(* null, one method of the Disk.  g_res, when recorded, holds the function *)
(* called, whether m_disks had the region at the lookup, the Disk calls    *)
(* made, the Disk's result and the function's result.                      *)
(***************************************************************************)
Functions == {"get", "put", "del", "trickle", "make_snapshot", "make_rolling_snapshot"}

\* a variant of DiskMethod in which trickle forces the I/O itself
DiskMethodTrickleMandatory(fn) == IF fn = "trickle" THEN "do_mandatory_io" ELSE fn

\* the Disk method each function calls (lines 220, 233, 243, 260, 276, 290)
DiskMethod(fn) == IF fn = "trickle" THEN "flush" ELSE fn

\* what a Disk method can return: a code, or for the snapshots a handle or null
DiskResults(fn) ==
    IF fn \in {"make_snapshot", "make_rolling_snapshot"} THEN {"snapshot", "null"}
    ELSE ReturnCodes

\* lines 215-218, 228-231, 241, 255-258, 271-274, 285-288: r is null
ResultWithoutDisk(fn) ==
    CASE fn \in {"get", "put", "del"} -> "MISSINGDISK"
      [] fn \in {"make_snapshot", "make_rolling_snapshot"} -> "null"
      [] OTHER -> "void"

\* a variant of ResultOfDisk that reports every Disk failure as MISSINGDISK
ResultOfDiskMasked(fn, dret) ==
    IF fn = "trickle" THEN "void"
    ELSE IF dret \in {"SUCCESS", "snapshot", "null"} THEN dret ELSE "MISSINGDISK"

\* lines 220, 233, 243, 260, 276, 290: the function returns what the Disk
\* returned; trickle discards it
ResultOfDisk(fn, dret) == IF fn = "trickle" THEN "void" ELSE dret

\* the history of a call of fn for region ri, at its lookup
Lookup(fn, ri) ==
    [fn |-> fn, hit |-> ri \in Hosted, calls |-> 0, dret |-> "none",
     ret |-> IF MapFind(m_disks, ri) = 0 THEN ResultWithoutDisk(fn) ELSE "none"]

\* lines 293-308, called first by each function; a null r makes the function
\* return at once
lookup(ri, res) ==
    /\ o_pc = "alive"
    /\ g_pc = "idle"
    /\ m_lock = "free"
    /\ g_r' = MapFind(m_disks, ri)
    /\ g_pc' = IF MapFind(m_disks, ri) = 0 THEN "idle" ELSE "found"
    /\ g_res' = res
    /\ UNCHANGED <<svars, dvars, cvars, qvars, fvars, wvars, ovars, g_op, h>>

\* the call of the Disk method, outside the lock
disk_call(fn) ==
    /\ g_pc = "found"
    /\ g_res = NoResult \/ g_res.fn = fn
    /\ g_op' = DiskMethod(fn)
    /\ g_pc' = "call"
    /\ g_res' = IF g_res = NoResult THEN g_res ELSE [g_res EXCEPT !.calls = @ + 1]
    /\ UNCHANGED <<svars, dvars, cvars, qvars, fvars, wvars, ovars, g_r, h>>

\* the Disk method returns dret and the function returns
disk_return(fn, dret) ==
    /\ g_pc = "call"
    /\ g_op = DiskMethod(fn)
    /\ g_res = NoResult \/ g_res.fn = fn
    /\ g_pc' = "idle"
    /\ g_r' = 0
    /\ g_op' = "none"
    /\ g_res' = IF g_res = NoResult THEN g_res
                ELSE [g_res EXCEPT !.dret = dret, !.ret = ResultOfDisk(fn, dret)]
    /\ UNCHANGED <<svars, dvars, cvars, qvars, fvars, wvars, ovars, h>>

ForegroundStep ==
    \/ \E fn \in Functions : disk_call(fn)
    \/ \E fn \in Functions : \E dret \in DiskResults(fn) : disk_return(fn, dret)

Foreground ==
    \/ \E ri \in Regions : lookup(ri, NoResult)
    \/ ForegroundStep

RecordedForeground ==
    \/ \E fn \in Functions, ri \in Regions : lookup(ri, Lookup(fn, ri))
    \/ ForegroundStep

(***************************************************************************)
(* Owner: shutdown and the destructor.                                     *)
(***************************************************************************)
\* lines 204-208
shutdown ==
    /\ o_pc = "alive"
    /\ ~m_shutdown
    /\ m_shutdown' = TRUE
    /\ UNCHANGED <<svars, dvars, cvars, qvars, fvars, wvars, o_pc, gvars, h>>

\* lines 89-92; no call on the datalayer is in progress when it is destroyed
dtor_shutdown ==
    /\ o_pc = "alive"
    /\ c_pc = "idle"
    /\ g_pc = "idle"
    /\ m_shutdown' = TRUE
    /\ o_pc' = "join"
    /\ UNCHANGED <<svars, dvars, cvars, qvars, fvars, wvars, gvars, h>>

\* a variant of Joinable that does not wait for the thread
JoinableAtOnce == TRUE

\* po6::threads::thread::join returns when flush_loop has returned
Joinable == f_pc = "done"

\* line 94
dtor_join ==
    /\ o_pc = "join"
    /\ Joinable
    /\ o_pc' = "joined"
    /\ UNCHANGED <<svars, dvars, cvars, qvars, fvars, wvars, m_shutdown, gvars, h>>

\* line 95: the members are destroyed; m_disks releases its Disks
dtor_members ==
    /\ o_pc = "joined"
    /\ m_disks' = {}
    /\ m_preallocate_rr' = <<>>
    /\ m_optimistic_rr' = <<>>
    /\ o_pc' = "destroyed"
    /\ UNCHANGED <<svars, m_lock, disk, cvars, m_last_preallocation, m_last_dose_of_optimism,
                   fvars, wvars, m_shutdown, gvars, h>>

Owner == shutdown \/ dtor_shutdown \/ dtor_join \/ dtor_members


(***************************************************************************)
(* The users of a segment list: the writer of the log, which replaces its  *)
(* handle by the list add returns, and a reader, which takes a copy of the *)
(* writer's handle, calls the accessors and gives the handle up.           *)
(***************************************************************************)
\* the writer rotates to a new segment: lists = lists->add(lower_bound, ws)
writer_add(lower_bound) ==
    /\ Len(s_lists) < MaxLists
    /\ LET ws == Len(s_lists) + 1
           n == Len(s_lists) + 1
       IN  /\ s_lists' = dec(inc(add(s_lists, s_writer, lower_bound, ws), n), s_writer)
           /\ s_writer' = n
           /\ s_arg' = <<s_writer, lower_bound, ws>>
    /\ UNCHANGED <<datalayer, s_reader, s_seen, s_got>>

\* a reader copies the handle
reader_acquire ==
    /\ s_reader = 0
    /\ s_reader' = s_writer
    /\ s_lists' = inc(s_lists, s_writer)
    /\ s_seen' = Accessors(s_lists, s_writer)
    /\ UNCHANGED <<datalayer, s_writer, s_got, s_arg>>

\* the reader calls get_lower_bound(i) and get_segment(i) with a valid i
reader_get(i) ==
    /\ s_reader # 0
    /\ i <= s_lists[s_reader].m_sz
    /\ s_got' = <<i, get_lower_bound(s_lists, s_reader, i), get_segment(s_lists, s_reader, i)>>
    /\ UNCHANGED <<datalayer, s_lists, s_writer, s_reader, s_seen, s_arg>>

\* the reader's handle goes out of scope
reader_release ==
    /\ s_reader # 0
    /\ s_lists' = dec(s_lists, s_reader)
    /\ s_reader' = 0
    /\ s_seen' = <<>>
    /\ s_got' = <<>>
    /\ UNCHANGED <<datalayer, s_writer, s_arg>>
(***************************************************************************)
(* Initial state: the state after the constructor (lines 72-85).           *)
(***************************************************************************)
Init ==
    /\ m_disks = {}
    /\ m_lock = "free"
    /\ m_shutdown = FALSE
    /\ m_preallocate_rr = <<>>
    /\ m_optimistic_rr = <<>>
    /\ m_last_preallocation = 0
    /\ m_last_dose_of_optimism = 0
    /\ disk = <<>>
    /\ c_pc = "idle"
    /\ c_op = "none"
    /\ c_todo = <<>>
    /\ c_d = 0
    /\ c_made = 0
    /\ h = NoHistory
    /\ f_pc = "top"
    /\ f_disks = {}
    /\ f_sleep = TRUE
    /\ f_i = 0
    /\ f_ri = NoRegion
    /\ f_calls = <<>>
    /\ f_full = {}
    /\ f_failed = {}
    /\ f_ret = "none"
    /\ f_worked = FALSE
    /\ f_stable = TRUE
    /\ f_missed = NoneMissed
    /\ o_pc = "alive"
    /\ g_pc = "idle"
    /\ g_r = 0
    /\ g_op = "none"
    /\ g_res = NoResult
    /\ s_lists = <<segment_list(1)>>
    /\ s_writer = 1
    /\ s_reader = 0
    /\ s_seen = <<>>
    /\ s_got = <<>>
    /\ s_arg = <<>>

(***************************************************************************)
(* The configuration thread alone: prepare and cleanup invoked one after   *)
(* the other with no other thread running.  h records the invocation:      *)
(* its configuration, the map before it, and the call that immediately     *)
(* preceded it with the same configuration, if any, with the number of     *)
(* Disks that call constructed.                                            *)
(***************************************************************************)
History(op, cfg) ==
    [op |-> op, cfg |-> cfg, before |-> m_disks,
     after |-> IF h = NoHistory THEN "none" ELSE h.op,
     after_made |-> IF h = NoHistory THEN 0 ELSE c_made]

\* a first call takes any configuration; a call that follows another
\* without a Forget in between repeats its configuration
NextConfigs == IF h = NoHistory THEN Configs ELSE {h.cfg}

SeqPrepare == \E cfg \in NextConfigs : prepare(cfg, Us, History("prepare", cfg))

SeqCleanup == \E cfg \in NextConfigs : cleanup(cfg, Us, History("cleanup", cfg))

Forget ==
    /\ c_pc = "idle"
    /\ h # NoHistory
    /\ h' = NoHistory
    /\ UNCHANGED <<svars, dvars, cvars, qvars, fvars, wvars, ovars, gvars>>

SeqNext == SeqPrepare \/ SeqCleanup \/ ConfigStep \/ Forget

SeqSpec == Init /\ [][SeqNext]_vars

Returned(op) == c_pc = "idle" /\ h # NoHistory /\ h.op = op

(***************************************************************************)
(* The configuration thread, the flush thread and the owner together.      *)
(* The configurations are those that name every region in regions(),       *)
(* assign entities of the user space only, to us only, and use the lowest  *)
(* replica indexes: every other configuration gives prepare and cleanup    *)
(* the work of one of these.                                               *)
(***************************************************************************)
SomeConfigs ==
    {c \in ConsistentConfigs :
        \A e \in DOMAIN c.entity_mapping :
            /\ c.entity_mapping[e] = Us
            /\ e.space # SentinelSpace
            /\ \A n \in 0..e.number : entityid(get_region(e), n) \in DOMAIN c.entity_mapping}

Prepare == \E cfg \in SomeConfigs : prepare(cfg, Us, NoHistory)

Cleanup == \E cfg \in SomeConfigs : cleanup(cfg, Us, NoHistory)

SchedNext == Prepare \/ Cleanup \/ ConfigStep \/ Flusher \/ Owner

SchedSpec == Init /\ [][SchedNext]_vars

(***************************************************************************)
(* The configuration thread and the foreground thread, with the results    *)
(* of the foreground calls recorded.                                       *)
(***************************************************************************)
FgNext == Prepare \/ Cleanup \/ ConfigStep \/ RecordedForeground

FgSpec == Init /\ [][FgNext]_vars

(***************************************************************************)
(* The configuration thread, the flush thread and the foreground thread.   *)
(***************************************************************************)
Next == Prepare \/ Cleanup \/ ConfigStep \/ Flusher \/ Foreground

Spec == Init /\ [][Next]_vars

(***************************************************************************)
(* SchedSpec with the fairness of the threads: the flush thread keeps      *)
(* running and its Disk calls return, drop() returns, and join returns     *)
(* once flush_loop has.                                                    *)
(***************************************************************************)
SchedFairSpec ==
    SchedSpec /\ WF_vars(Flusher) /\ WF_vars(drop_disk_erase) /\ WF_vars(dtor_join)



(***************************************************************************)
(* The segment list of one log: its single writer and one reader.          *)
(***************************************************************************)
SegNext ==
    \/ \E lower_bound \in 1..MaxBound : writer_add(lower_bound)
    \/ reader_acquire
    \/ \E i \in 1..MaxLists : reader_get(i)
    \/ reader_release

SegSpec == Init /\ [][SegNext]_vars

(***************************************************************************)
(* The flush thread alone, started in a state that prepare, cleanup and    *)
(* earlier iterations can have left behind: m_disks hosts any of MaxQueue  *)
(* regions, and each queue holds, once each and in any order, regions      *)
(* that were hosted during some earlier iteration.                         *)
(***************************************************************************)
MaxQueue == 3

PassRegions == {regionid(0, s) : s \in 0..(MaxQueue - 1)}

\* the queues flush_loop can have built: no region twice
Queues ==
    UNION {{q \in [1..n -> PassRegions] : \A j, k \in 1..n : q[j] = q[k] => j = k} :
             n \in 0..MaxQueue}

PassInit ==
    /\ \E hosted \in SUBSET PassRegions :
          LET rs == SortedRegions(hosted)
          IN  /\ disk = [d \in 1..Len(rs) |-> [ri |-> rs[d], drops |-> 0]]
              /\ m_disks = {<<rs[d], d>> : d \in 1..Len(rs)}
    /\ m_lock = "free"
    /\ m_shutdown = FALSE
    /\ m_preallocate_rr \in Queues
    /\ m_optimistic_rr \in Queues
    /\ m_last_preallocation = 1
    /\ m_last_dose_of_optimism = 1
    /\ c_pc = "idle"
    /\ c_op = "none"
    /\ c_todo = <<>>
    /\ c_d = 0
    /\ c_made = 0
    /\ h = NoHistory
    /\ f_pc = "top"
    /\ f_disks = {}
    /\ f_sleep = TRUE
    /\ f_i = 0
    /\ f_ri = NoRegion
    /\ f_calls = <<>>
    /\ f_full = {}
    /\ f_failed = {}
    /\ f_ret = "none"
    /\ f_worked = FALSE
    /\ f_stable = TRUE
    /\ f_missed = NoneMissed
    /\ o_pc = "alive"
    /\ g_pc = "idle"
    /\ g_r = 0
    /\ g_op = "none"
    /\ g_res = NoResult
    /\ s_lists = <<segment_list(1)>>
    /\ s_writer = 1
    /\ s_reader = 0
    /\ s_seen = <<>>
    /\ s_got = <<>>
    /\ s_arg = <<>>

PassNext == Flusher

PassSpec == PassInit /\ [][PassNext]_vars

(***************************************************************************)
(* The configuration thread and the flush thread, with the datalayer       *)
(* never destroyed.                                                        *)
(***************************************************************************)
FlushNext == Prepare \/ Cleanup \/ ConfigStep \/ Flusher

FlushSpec == Init /\ [][FlushNext]_vars
(***************************************************************************)
(* Properties.                                                             *)
(***************************************************************************)
\* the regions of cfg that some entity outside the sentinel space assigns to
\* us, or that are the target of a transfer to us
Assigned(cfg, us) ==
    {ri \in Regions :
        \/ \E e \in DOMAIN cfg.entity_mapping :
              get_region(e) = ri /\ e.space # SentinelSpace /\ cfg.entity_mapping[e] = us
        \/ \E t \in DOMAIN cfg.transfers : cfg.transfers[t] = ri}

\* the regions that some entity assigns to us, or that are a transfer target
Retained(cfg, us) ==
    {ri \in Regions :
        \/ \E e \in DOMAIN cfg.entity_mapping :
              get_region(e) = ri /\ cfg.entity_mapping[e] = us
        \/ \E t \in DOMAIN cfg.transfers : cfg.transfers[t] = ri}

\* the regions a configuration names in its routing or transfer tables
Referenced(cfg) ==
    {get_region(e) : e \in DOMAIN cfg.entity_mapping}
        \cup {cfg.transfers[t] : t \in DOMAIN cfg.transfers}

\* C2: when prepare(config, self) has returned, the hosted regions are those
\* hosted before the call plus every region of config.regions() that a
\* non-sentinel entity assigns to self or that is a transfer target of self
\* (so a region of other instances only, or one missing from regions(), gets
\* no Disk, the other regions are still created, and none is removed).
C2_PrepareResult ==
    Returned("prepare") =>
        Hosted = Keys(h.before) \cup (Assigned(h.cfg, Us) \cap h.cfg.regions)

\* a prepare that created a region and skipped one that is missing from
\* regions(), under a configuration that also assigns entities to another
\* instance
C2_Witness ==
    /\ Returned("prepare")
    /\ Hosted # Keys(h.before)
    /\ \E ri \in (Assigned(h.cfg, Us) \ h.cfg.regions) : ri \notin Hosted
    /\ \E e \in DOMAIN h.cfg.entity_mapping : h.cfg.entity_mapping[e] # Us

\* C3: a prepare that directly follows a prepare with the same arguments
\* constructs no Disk and leaves the region map as it was.
C3_PrepareIdempotent ==
    (h # NoHistory /\ h.op = "prepare" /\ h.after = "prepare") =>
        /\ c_made = 0
        /\ m_disks = h.before
        /\ c_pc = "idle"

\* the second of two equal prepares, the first of which constructed Disks
C3_Witness ==
    /\ Returned("prepare")
    /\ h.after = "prepare"
    /\ h.after_made > 0

\* C4: when cleanup(config, self) has returned, a region hosted before the
\* call is still hosted iff an entity of it is assigned to self or it is a
\* transfer target of self; a retained region keeps its Disk, a region that
\* is not retained had drop() invoked exactly once on its Disk and has no
\* entry any more; cleanup adds no region.
C4_CleanupResult ==
    Returned("cleanup") =>
        /\ Hosted = Keys(h.before) \cap Retained(h.cfg, Us)
        /\ \A p \in h.before :
              IF p[1] \in Retained(h.cfg, Us)
              THEN p \in m_disks /\ disk[p[2]].drops = 0
              ELSE disk[p[2]].drops = 1

\* a cleanup that dropped one region and retained another
C4_Witness ==
    /\ Returned("cleanup")
    /\ \E p \in h.before : p[1] \notin Hosted /\ disk[p[2]].drops = 1
    /\ \E p \in h.before : p \in m_disks
    /\ \E t \in DOMAIN h.cfg.transfers : h.cfg.transfers[t] \in Hosted

\* C1: m_disks never holds two Disks for one region, and no step replaces
\* the Disk of a region that stays hosted; in particular an insert of
\* create_disk for a region that has an entry leaves that entry in place.
C1_OneDiskPerRegion ==
    /\ [](\A p \in m_disks : \A q \in m_disks : p[1] = q[1] => p = q)
    /\ [][\A p \in m_disks : p[1] \in Keys(m_disks') => p \in m_disks']_vars

\* create_disk has constructed a second Disk for a hosted region and its
\* insert has left the first Disk in the map
C1_Witness ==
    /\ c_pc = "idle"
    /\ c_op = "prepare"
    /\ \E p \in m_disks : \E d \in 1..Len(disk) :
          d > p[2] /\ disk[d].ri = p[1] /\ disk[p[2]].drops = 0

\* C5: a call for a region without an entry at its lookup makes no Disk call
\* and returns MISSINGDISK (get, put, del), null (the snapshots) or nothing
\* (trickle); a get, put or del for a region with an entry makes one Disk
\* call and returns its result; no step of the foreground thread changes
\* m_disks.
C5_ForegroundResult ==
    /\ [](g_res # NoResult =>
            IF g_res.hit
            THEN (g_pc = "idle" /\ g_res.fn \in {"get", "put", "del"}) =>
                    /\ g_res.calls = 1
                    /\ g_res.dret \in ReturnCodes
                    /\ g_res.ret = g_res.dret
            ELSE /\ g_pc = "idle"
                 /\ g_res.calls = 0
                 /\ g_res.dret = "none"
                 /\ g_res.fn \in {"get", "put", "del"} => g_res.ret = "MISSINGDISK"
                 /\ g_res.fn \in {"make_snapshot", "make_rolling_snapshot"} => g_res.ret = "null"
                 /\ g_res.fn = "trickle" => g_res.ret = "void")
    /\ [][(g_pc' # g_pc \/ g_res' # g_res) => m_disks' = m_disks]_vars

\* a get for a region without an entry has returned while another region
\* is hosted
C5_Witness ==
    /\ g_res # NoResult
    /\ g_res.fn = "get"
    /\ ~g_res.hit
    /\ g_res.ret = "MISSINGDISK"
    /\ Hosted # {}

\* C6: in every iteration the regions on which do_mandatory_io has been
\* invoked are those whose flush returned DATAFULL or SEARCHFULL, each such
\* invocation directly follows the flush of the same Disk, and after a
\* failed do_mandatory_io the iteration still flushes every Disk of its copy
\* and goes on to the next iteration.
C6_MandatoryIO ==
    /\ [](/\ Called("do_mandatory_io") = f_full
          /\ \A k \in 1..Len(f_calls) :
                f_calls[k][1] = "do_mandatory_io" =>
                    k > 1 /\ f_calls[k - 1] = <<"flush", f_calls[k][2]>>
          /\ f_failed \subseteq f_full
          /\ f_pc = "end" => Called("flush") = Keys(f_disks))
    /\ [][(f_failed # {} /\ f_pc' # f_pc) => f_pc' \in {"flush", "flush_call", "mandatory_call", "end", "sleep", "top"}]_vars

\* an iteration over two Disks has ended: the flush of the first returned
\* DATAFULL or SEARCHFULL, its do_mandatory_io failed, and the second Disk
\* was flushed after that
C6_Witness ==
    /\ f_pc = "end"
    /\ Len(f_calls) = 3
    /\ f_calls[2][1] = "do_mandatory_io"
    /\ f_calls[2][2] \in f_failed
    /\ f_calls[3][1] = "flush"
    /\ f_calls[3][2] \notin f_full

\* C7: a hosted region is never left without a preallocate attempt for as
\* many consecutive preallocation passes as there are hosted regions, while
\* the hosted set stays the same.
C7_RoundRobinFair ==
    \A ri \in Hosted : f_missed[ri] < Cardinality(Hosted)

\* C8: once the destructor has joined the flush thread, flush_loop has
\* returned, it makes no Disk call any more, and the members are destroyed
\* only after the join.
C8_NoIOAfterJoin ==
    /\ [](o_pc \in {"joined", "destroyed"} => m_shutdown /\ f_pc = "done")
    /\ [][(o_pc \in {"joined", "destroyed"}) => UNCHANGED <<f_pc, f_ri, f_calls>>]_vars
    /\ [][o_pc' = "destroyed" => o_pc \in {"joined", "destroyed"}]_vars

\* the flush thread has been joined after it served a hosted region
C8_Witness ==
    /\ o_pc = "joined"
    /\ m_disks # {}
    /\ m_preallocate_rr # <<>>
    /\ m_last_preallocation = 1

\* C9: after shutdown the flush thread starts no further iteration and
\* flush_loop returns, and a destructor that waits in join gets past it.
C9_Terminates ==
    /\ m_shutdown ~> f_pc = "done"
    /\ (o_pc = "join") ~> (o_pc = "joined")
    /\ [][m_shutdown => ~(f_pc = "top" /\ f_pc' # "top" /\ f_pc' # "done")]_vars

\* flush_loop has returned after an iteration that did not sleep, and the
\* destructor has joined it
C9_Witness ==
    /\ o_pc = "joined"
    /\ f_pc = "done"
    /\ ~f_sleep
    /\ m_disks # {}

\* the maintenance methods of a Disk
Maintenance == {"preallocate", "do_optimistic_io", "do_mandatory_io", "flush"}

\* the maintenance calls in flight on Disk d, as <<thread, method>>
FlusherInFlight(d) ==
    IF f_ri # NoRegion /\ MapFind(f_disks, f_ri) = d THEN {<<"flusher", f_calls[Len(f_calls)][1]>>} ELSE {}

ForegroundInFlight(d) ==
    IF g_pc = "call" /\ g_r = d /\ g_op \in Maintenance THEN {<<"foreground", g_op>>} ELSE {}

\* C10 as stated: at most one maintenance call is in flight on a Disk.
C10_OneMaintenanceCall ==
    \A d \in 1..Len(disk) : Cardinality(FlusherInFlight(d) \cup ForegroundInFlight(d)) <= 1

\* C10 amended: on every Disk at most one maintenance call is in flight
\* apart from the flush calls of trickle, which the foreground thread makes.
C10_OneMaintenanceCallButTrickle ==
    \A d \in 1..Len(disk) :
        Cardinality({c \in FlusherInFlight(d) \cup ForegroundInFlight(d) :
                        c # <<"foreground", "flush">>}) <= 1

\* trickle's flush and a call of the flush thread are in flight on one Disk
C10_Witness ==
    \E d \in 1..Len(disk) :
        FlusherInFlight(d) # {} /\ ForegroundInFlight(d) = {<<"foreground", "flush">>}

\* C11: when an iteration of flush_loop ends, flush has been invoked exactly
\* once on each Disk of the iteration's copy of m_disks, whatever the Disk
\* calls of the iteration returned, and flush_loop returns only from the
\* top of an iteration at which m_shutdown is set.
C11_EveryDiskFlushed ==
    /\ [](f_pc = "end" =>
            \A ri \in Keys(f_disks) :
                Cardinality({k \in 1..Len(f_calls) : f_calls[k] = <<"flush", ri>>}) = 1)
    /\ [][f_pc' = "done" => (f_pc = "done" \/ (f_pc = "top" /\ m_shutdown))]_vars

\* an iteration over two Disks has ended in which both flush calls
\* reported a full Disk and both do_mandatory_io calls failed
C11_Witness ==
    /\ f_pc = "end"
    /\ Cardinality(f_disks) = 2
    /\ f_full = Keys(f_disks)
    /\ f_failed = Keys(f_disks)
    /\ Len(f_calls) = 4

\* C12: add is copy-on-write: the list it returns holds the entries of the
\* list it was called on in the same positions followed by the new entry;
\* no step changes an accessor result of a list that stays referenced; and
\* a reader gets from its handle what the accessors returned when it took
\* the handle, however many add calls the writer has made since.
C12_AddCopyOnWrite ==
    /\ [][Len(s_lists') > Len(s_lists) =>
            LET l1 == s_arg'[1]
                l2 == Len(s_lists')
            IN  /\ s_lists'[l2].m_sz = s_lists[l1].m_sz + 1
                /\ \A i \in 1..s_lists[l1].m_sz :
                      /\ get_lower_bound(s_lists', l2, i) = get_lower_bound(s_lists, l1, i)
                      /\ get_segment(s_lists', l2, i) = get_segment(s_lists, l1, i)
                /\ get_lower_bound(s_lists', l2, s_lists'[l2].m_sz) = s_arg'[2]
                /\ get_segment(s_lists', l2, s_lists'[l2].m_sz) = s_arg'[3]]_vars
    /\ [][\A l \in 1..Len(s_lists) :
            s_lists'[l].m_ref > 0 => Accessors(s_lists', l) = Accessors(s_lists, l)]_vars
    /\ [](s_reader # 0 => Accessors(s_lists, s_reader) = s_seen)
    /\ [](s_got # <<>> => <<s_got[2], s_got[3]>> = s_seen[s_got[1]])

\* the reader has read an entry of a list it took before the writer's last
\* two add calls
C12_Witness ==
    /\ s_reader # 0
    /\ s_writer >= s_reader + 2
    /\ s_got # <<>>
    /\ s_lists[s_reader].m_sz >= 1

\* C13: m_lock is not held while a Disk I/O operation runs.  The threads
\* other than the configuration thread hold m_lock only inside the scopes
\* that copy or search m_disks; for the configuration thread: a step that
\* creates a Disk or invokes drop() on one neither holds nor takes m_lock.
C13_NoIOUnderLock ==
    [][disk' # disk => (m_lock = "free" /\ m_lock' = "free")]_vars

\* C14: within one invocation of prepare a Disk is constructed only for a
\* region that m_disks does not host when it is constructed, so the Disks
\* constructed by one invocation are for distinct regions.
C14_OneDiskPerPrepare ==
    [][(c_op' = "prepare" /\ Len(disk') > Len(disk)) =>
            /\ disk'[Len(disk')].ri \notin Hosted
            /\ \A d \in (Len(disk) - c_made + 1)..Len(disk) :
                  disk[d].ri # disk'[Len(disk')].ri]_vars

\* the last Disk call of the current pass
LastCall == f_calls[Len(f_calls)]

\* C15, the order: a pass calls preallocate (do_optimistic_io) on the hosted
\* region at the front of its queue and moves that region to the back.
C15_QueueOrder ==
    /\ [][(f_pc' = "preallocate_call" /\ f_pc # "preallocate_call") =>
            /\ f_ri' = Head(m_preallocate_rr)
            /\ f_ri' \in Keys(f_disks)
            /\ m_preallocate_rr' = Append(Tail(m_preallocate_rr), f_ri')
            /\ f_calls' = Append(f_calls, <<"preallocate", f_ri'>>)]_vars
    /\ [][(f_pc' = "optimistic_call" /\ f_pc # "optimistic_call") =>
            /\ f_ri' = Head(m_optimistic_rr)
            /\ f_ri' \in Keys(f_disks)
            /\ m_optimistic_rr' = Append(Tail(m_optimistic_rr), f_ri')
            /\ f_calls' = Append(f_calls, <<"do_optimistic_io", f_ri'>>)]_vars

\* C15, at most once: no pass calls its operation twice on one region.
C15_AtMostOnce ==
    \A j, k \in 1..Len(f_calls) :
        (f_calls[j] = f_calls[k] /\ f_calls[j][1] \in {"preallocate", "do_optimistic_io"}) => j = k

\* C15, Success: the pass is over once a call has returned SUCCESS, and
\* after any other result control is back in the walk.
C15_StopOnSuccess ==
    f_ret # "none" =>
        IF f_ret = "SUCCESS"
        THEN f_pc = (IF LastCall[1] = "preallocate" THEN "optimistic" ELSE "flush")
        ELSE f_pc = (IF LastCall[1] = "preallocate" THEN "preallocate_loop" ELSE "optimistic_loop")

\* C15, the walk continues: a pass that has made an attempt and ends without
\* a Success has attempted every hosted region.
C15_WalkContinues ==
    /\ [][(f_pc = "preallocate_loop" /\ f_pc' = "optimistic" /\ f_calls # <<>>) =>
            Keys(f_disks) \subseteq Called("preallocate")]_vars
    /\ [][(f_pc = "optimistic_loop" /\ f_pc' = "flush" /\ f_calls # <<>>) =>
            Keys(f_disks) \subseteq Called("do_optimistic_io")]_vars

\* C15: in one preallocation or opportunistic-I/O pass the regions are
\* attempted in queue order, each visited hosted region moving to the back,
\* at most once each, with no attempt after the first Success and the walk
\* going on to the next candidate after any other result.
C15_PassProtocol ==
    /\ C15_QueueOrder
    /\ []C15_AtMostOnce
    /\ []C15_StopOnSuccess
    /\ C15_WalkContinues

\* the regions a queue holds
Members(q) == {q[k] : k \in 1..Len(q)}

C17_SleepIffNoWork ==
    /\ [][(f_pc = "end" /\ f_pc' # "end") =>
            /\ f_pc' \in {"sleep", "top"}
            /\ f_pc' = "sleep" <=> ~f_worked]_vars
    /\ [][(f_disks = {} /\ f_pc \notin {"top", "copy", "sleep", "done"}) =>
            /\ f_calls' = <<>>
            /\ f_pc' \notin {"preallocate_call", "optimistic_call", "flush_call", "mandatory_call"}
            /\ f_pc = "end" /\ f_pc' # "end" => f_pc' = "sleep"]_vars

\* an iteration over two Disks is about to sleep: no call returned SUCCESS,
\* and the do_mandatory_io calls that followed full flushes did not fail
C17_Witness ==
    /\ f_pc = "end"
    /\ ~f_worked
    /\ f_sleep
    /\ f_full = Keys(f_disks)
    /\ f_failed = {}
    /\ Cardinality(f_disks) = 2

\* C18: no operation is invoked on a Disk after drop() has been invoked on
\* it: neither the flush thread, on a Disk of its copy of m_disks, nor a
\* foreground function, on the Disk its get_region found, starts a call on
\* a dropped Disk.
C18_NoCallAfterDrop ==
    /\ [][(/\ f_pc' # f_pc
           /\ f_pc' \in {"preallocate_call", "optimistic_call", "flush_call", "mandatory_call"}) =>
            disk[MapFind(f_disks, f_ri')].drops = 0]_vars
    /\ [][(g_pc' = "call" /\ g_pc # "call") => disk[g_r].drops = 0]_vars

\* no region twice in q
NoDuplicates(q) == \A j, k \in 1..Len(q) : q[j] = q[k] => j = k

\* C19: from the population of the queues on, through both passes and to
\* the end of the iteration, each queue holds no region twice and holds
\* every region of the iteration's copy of m_disks.
C19_QueuesComplete ==
    /\ NoDuplicates(m_preallocate_rr)
    /\ NoDuplicates(m_optimistic_rr)
    /\ f_pc \notin {"top", "copy", "sleep", "done"} =>
          /\ Keys(f_disks) \subseteq Members(m_preallocate_rr)
          /\ Keys(f_disks) \subseteq Members(m_optimistic_rr)

\* a preallocation pass has ended after an attempt on a region that was
\* dropped and then hosted again
C19_Witness ==
    /\ f_pc = "optimistic"
    /\ f_calls # <<>>
    /\ \E d1, d2 \in 1..Len(disk) :
          /\ d1 < d2
          /\ disk[d1].ri = disk[d2].ri
          /\ disk[d1].drops = 1
          /\ <<disk[d2].ri, d2>> \in f_disks
          /\ f_calls[1][2] = disk[d2].ri

\* the Disks constructed by the prepare that preceded the cleanup in progress
MadeByPrepare == (Len(disk) - h.after_made + 1)..Len(disk)

\* C20: a cleanup invoked right after prepare with the same configuration
\* invokes drop() on no Disk that prepare constructed and leaves every
\* region that prepare created a Disk for hosted.
C20_CleanupKeepsPrepared ==
    (h # NoHistory /\ h.op = "cleanup" /\ h.after = "prepare") =>
        \A d \in MadeByPrepare :
            /\ disk[d].drops = 0
            /\ disk[d].ri \in Hosted

\* such a cleanup has returned: prepare had constructed a Disk, and cleanup
\* dropped the Disk of another region
C20_Witness ==
    /\ Returned("cleanup")
    /\ h.after = "prepare"
    /\ h.after_made >= 1
    /\ \E d \in 1..Len(disk) : disk[d].drops = 1

====
